---- MODULE Spec2Model ----
(***************************************************************************)
(* Model of package dgutils (discordgo-utils): the command register        *)
(* (CmdRegister: Add, Alias, Canon, Get), the signature validator          *)
(* (Command), the predicate evaluator (CmdPredicate.Validate), the         *)
(* conversion engine (tryConvert), FnCmd.Invoke and CmdRegister.Handle.    *)
(*                                                                         *)
(* Go strings are modelled as sequences of one-character strings, so that  *)
(* splitting, prefix tests and number parsing are computed, not assumed.   *)
(* Go maps are functions whose DOMAIN is the set of keys present; reading  *)
(* an absent key gives the zero value (MapGet).                            *)
(***************************************************************************)
EXTENDS Integers, Sequences, FiniteSets, TLC

VARIABLES
    Cmds,       \* CmdRegister.Cmds    : map[string]Cmd
    Aliases,    \* CmdRegister.Aliases : map[string]string
    firstAdd,   \* history: name -> descriptor stored by the first successful Add(name, d), d non-nil
    last        \* the last operation performed, its inputs and what it returned / did

vars == <<Cmds, Aliases, firstAdd, last>>

----------------------------------------------------------------------------
(* Go values: strings, maps, errors                                        *)

EmptyStr == << >>

EmptyMap == [k \in {} |-> k]

MapGet(m, k, zero) == IF k \in DOMAIN m THEN m[k] ELSE zero

MapPut(m, k, v) == [x \in (DOMAIN m) \cup {k} |-> IF x = k THEN v ELSE m[x]]

NilErr == [type |-> "nil"]

NilCmd == [type |-> "nilCmd"]

NilHandler == [type |-> "nilHandler"]

\* fmt.Errorf / errors.New: an error that carries only its text
ErrorString(msg) == [type |-> "errorString", msg |-> msg]

\* errors.go
\* ArgCountMismatch with the two counts exchanged (a variant, to try C5 against)
ArgCountSwapped(expected, got) == [type |-> "ArgCountMismatch", Expected |-> got, Got |-> expected]

ArgCountMismatch(expected, got) == [type |-> "ArgCountMismatch", Expected |-> expected, Got |-> got]

AccessDenied == [type |-> "AccessDenied"]

UnmarshalError(why) == [type |-> "UnmarshalError", Why |-> why]

----------------------------------------------------------------------------
(* reflect: types and kinds                                                *)

Scalar(kind) == [kind |-> kind]

PtrTo(structName) == [kind |-> "Ptr", elem |-> [kind |-> "Struct", name |-> structName]]

SliceOf(t) == [kind |-> "Slice", elem |-> t]

sessionType == PtrTo("discordgo.Session")

messageEventType == PtrTo("discordgo.MessageCreate")

channelType == PtrTo("discordgo.Channel")

userType == PtrTo("discordgo.User")

illegalKinds ==
    {"Invalid", "Uintptr", "Array", "Chan", "Func", "Interface", "Map", "Struct", "UnsafePointer"}

----------------------------------------------------------------------------
(* Command: the signature validator                                        *)

SetMin(S) == CHOOSE x \in S : \A y \in S : x <= y

\* The check made on parameter c (1-based position in fn.in) by the loop of Command:
\* the error it returns there, or NilErr.
ParamError(in, c) ==
    LET param == in[c]
        kind  == param.kind
    IN  IF kind \in illegalKinds
        THEN ErrorString(<<"Command: argument of kind not supported", kind>>)
        ELSE IF kind = "Slice"
             THEN IF c # Len(in)
                  THEN ErrorString(<<"Command: slice can only be the last argument in a function">>)
                  ELSE IF param.elem.kind \in illegalKinds
                       THEN ErrorString(<<"Command: argument of kind not supported", kind>>)
                       ELSE NilErr
             ELSE NilErr

\* Command(fn, help, errHandler) -> (cmd, err)
Command(fn, help, errHandler) ==
    IF fn.kind # "Func"
    THEN [cmd |-> NilCmd, err |-> ErrorString(<<"Command: expected fn of kind Func", fn.kind>>)]
    ELSE IF Len(fn.in) < 2
    THEN [cmd |-> NilCmd, err |-> ErrorString(<<"Command: not enough arguments">>)]
    ELSE IF fn.in[1] # sessionType
    THEN [cmd |-> NilCmd, err |-> ErrorString(<<"Command: first argument is not *discordgo.Session">>)]
    ELSE IF fn.in[2] # messageEventType
    THEN [cmd |-> NilCmd, err |-> ErrorString(<<"Command: second argument is not *discordgo.MessageCreate">>)]
    ELSE LET bad == {c \in 3..Len(fn.in) : ParamError(fn.in, c) # NilErr}
         IN  IF bad # {}
             THEN [cmd |-> NilCmd, err |-> ParamError(fn.in, SetMin(bad))]
             ELSE [cmd |-> [type       |-> "FnCmd",
                            Help       |-> help,
                            fn         |-> fn,
                            Predicate  |-> [Permissions |-> 0, Custom |-> "nil"],
                            ErrHandler |-> errHandler,
                            paramTypes |-> SubSeq(fn.in, 3, Len(fn.in))],
                   err |-> NilErr]

\* PredicatedCommand(fn, help, errHandler, predicate) -> (cmd, err)
PredicatedCommand(fn, help, errHandler, predicate) ==
    LET r == Command(fn, help, errHandler)
    IN  IF r.cmd # NilCmd
        THEN [cmd |-> [r.cmd EXCEPT !.Predicate = predicate], err |-> r.err]
        ELSE r

\* A Go function value: its parameter types and what its body does when called.
Func(in, body) == [kind |-> "Func", in |-> in, body |-> body]

----------------------------------------------------------------------------
(* CmdRegister                                                             *)

\* Register(): an empty command register (Init of every specification)
Register ==
    /\ Cmds = EmptyMap
    /\ Aliases = EmptyMap

Canon(aliases, name) ==
    LET canon == MapGet(aliases, name, EmptyStr)
    IN  IF canon # EmptyStr THEN canon ELSE name

Get(cmds, aliases, name) == MapGet(cmds, Canon(aliases, name), NilCmd)

\* Add without its test `if cur := reg.Get(name); cur != nil` (a variant, to try C22 against)
AddUnchecked(name, cmd) ==
    /\ Cmds' = MapPut(Cmds, name, cmd)
    /\ UNCHANGED Aliases
    /\ firstAdd' = IF name \notin DOMAIN firstAdd /\ cmd # NilCmd
                   THEN MapPut(firstAdd, name, cmd)
                   ELSE firstAdd
    /\ last' = [op |-> "Add", name |-> name, cmd |-> cmd, err |-> NilErr]

\* CmdRegister.Add(name, cmd)
Add(name, cmd) ==
    LET cur == Get(Cmds, Aliases, name)
    IN  IF cur # NilCmd
        THEN /\ UNCHANGED <<Cmds, Aliases, firstAdd>>
             /\ last' = [op |-> "Add", name |-> name, cmd |-> cmd,
                         err |-> ErrorString(<<"CmdRegister.Add: command already exists in register", name>>)]
        ELSE /\ Cmds' = MapPut(Cmds, name, cmd)
             /\ UNCHANGED Aliases
             /\ firstAdd' = IF name \notin DOMAIN firstAdd /\ cmd # NilCmd
                            THEN MapPut(firstAdd, name, cmd)
                            ELSE firstAdd
             /\ last' = [op |-> "Add", name |-> name, cmd |-> cmd, err |-> NilErr]

\* CmdRegister.Alias(name, dest)
Alias(name, dest) ==
    IF Get(Cmds, Aliases, dest) = NilCmd
    THEN /\ UNCHANGED <<Cmds, Aliases, firstAdd>>
         /\ last' = [op |-> "Alias", name |-> name, dest |-> dest,
                     err |-> ErrorString(<<"doesn't exist in register", name>>)]
    ELSE IF Get(Cmds, Aliases, name) # NilCmd
    THEN /\ UNCHANGED <<Cmds, Aliases, firstAdd>>
         /\ last' = [op |-> "Alias", name |-> name, dest |-> dest,
                     err |-> ErrorString(<<"already exists in register", name>>)]
    ELSE /\ Aliases' = MapPut(Aliases, name, dest)
         /\ UNCHANGED <<Cmds, firstAdd>>
         /\ last' = [op |-> "Alias", name |-> name, dest |-> dest, err |-> NilErr]

\* the state after reg := Register()
Init ==
    /\ Register
    /\ firstAdd = EmptyMap
    /\ last = [op |-> "Register"]

----------------------------------------------------------------------------
(* strings, strconv                                                        *)

DigitSeq == <<"0", "1", "2", "3", "4", "5", "6", "7", "8", "9">>

DigitChars == {DigitSeq[i] : i \in 1..10}

DigitVal(c) == (CHOOSE i \in 1..10 : DigitSeq[i] = c) - 1

\* strings.HasPrefix
HasPrefix(s, prefix) == Len(prefix) <= Len(s) /\ SubSeq(s, 1, Len(prefix)) = prefix

\* the first position j >= i of s that is past the end or holds a character outside set
RECURSIVE SpanEnd(_, _, _)
SpanEnd(s, i, set) ==
    IF i > Len(s) \/ s[i] \notin set THEN i ELSE SpanEnd(s, i + 1, set)

\* s without its leading "0" characters
RECURSIVE StripZeros(_)
StripZeros(s) == IF s # << >> /\ s[1] = "0" THEN StripZeros(Tail(s)) ELSE s

\* the number a short string of decimal digits denotes
RECURSIVE DigitsValue(_)
DigitsValue(s) ==
    IF s = << >> THEN 0 ELSE 10 * DigitsValue(SubSeq(s, 1, Len(s) - 1)) + DigitVal(s[Len(s)])

\* a <= b for digit strings of equal length (numeric order is lexicographic order)
RECURSIVE DigitsLeq(_, _)
DigitsLeq(a, b) ==
    IF a = << >> THEN TRUE
    ELSE IF DigitVal(a[1]) # DigitVal(b[1]) THEN DigitVal(a[1]) < DigitVal(b[1])
    ELSE DigitsLeq(Tail(a), Tail(b))

\* no range check at all (a variant, to try C13 against)
AnyMagnitude(digits, max) == TRUE

\* digits (no leading zeros) denotes a number <= max (a digit string)
MagnitudeLeq(digits, max) ==
    \/ Len(digits) < Len(max)
    \/ Len(digits) = Len(max) /\ DigitsLeq(digits, max)

MaxUint64 == <<"1","8","4","4","6","7","4","4","0","7","3","7","0","9","5","5","1","6","1","5">>

MaxInt64 == <<"9","2","2","3","3","7","2","0","3","6","8","5","4","7","7","5","8","0","7">>

MinInt64Magnitude == <<"9","2","2","3","3","7","2","0","3","6","8","5","4","7","7","5","8","0","8">>

\* strconv.FormatUint(id, 10) of the number the digit string denotes
FormatUint(digits) == IF StripZeros(digits) = << >> THEN <<"0">> ELSE StripZeros(digits)

----------------------------------------------------------------------------
(* fmt.Sscanf(str, "<#%d>", &id) and fmt.Sscanf(str, "<@!%d>", &id), id uint64:  *)
(* the decimal text of id afterwards (id starts as 0 and the error is dropped) *)

ScanSpace == {" ", "\t"}

Sscanf(str, literal) ==
    IF ~HasPrefix(str, literal)
    THEN <<"0">>                                   \* input does not match format
    ELSE LET from == SpanEnd(str, Len(literal) + 1, ScanSpace)        \* SkipSpace
             to   == SpanEnd(str, from, DigitChars \cup {"_"})      \* scanNumber
             tok  == SubSeq(str, from, to - 1)
         IN  IF tok = << >> THEN <<"0">>           \* expected integer / unexpected EOF
             ELSE IF \E i \in 1..Len(tok) : tok[i] = "_" THEN <<"0">>   \* ParseUint, base 10
             ELSE IF ~MagnitudeLeq(StripZeros(tok), MaxUint64) THEN <<"0">>  \* out of range
             ELSE FormatUint(tok)                  \* assigned before the closing ">" is matched

----------------------------------------------------------------------------
(* encoding/json: json.Unmarshal of one token into a bool, integer or float *)

JsonSpace == {" ", "\t", "\n", "\r"}

\* the last position j <= i of s that is before the start or holds a character outside set
RECURSIVE SpanBack(_, _, _)
SpanBack(s, i, set) ==
    IF i < 1 \/ s[i] \notin set THEN i ELSE SpanBack(s, i - 1, set)

TrimJson(s) == SubSeq(s, SpanEnd(s, 1, JsonSpace), SpanBack(s, Len(s), JsonSpace))

\* The JSON number grammar: -? (0 | [1-9][0-9]*) (. [0-9]+)? ([eE] [+-]? [0-9]+)?
JsonNumber(t) ==
    LET n       == Len(t)
        neg     == n >= 1 /\ t[1] = "-"
        i0      == IF neg THEN 2 ELSE 1
        hasInt  == i0 <= n /\ t[i0] \in DigitChars
        i1      == IF hasInt /\ t[i0] = "0" THEN i0 + 1 ELSE SpanEnd(t, i0, DigitChars)
        hasFrac == i1 <= n /\ t[i1] = "."
        i2      == IF hasFrac THEN SpanEnd(t, i1 + 1, DigitChars) ELSE i1
        hasExp  == i2 <= n /\ t[i2] \in {"e", "E"}
        hasSign == hasExp /\ i2 + 1 <= n /\ t[i2 + 1] \in {"+", "-"}
        j       == IF hasSign THEN i2 + 2 ELSE i2 + 1
        i3      == IF hasExp THEN SpanEnd(t, j, DigitChars) ELSE i2
    IN  [valid   |-> /\ hasInt
                     /\ (hasFrac => i2 > i1 + 1)
                     /\ (hasExp => i3 > j)
                     /\ i3 = n + 1,
         neg     |-> neg,
         int     |-> SubSeq(t, i0, i1 - 1),
         hasFrac |-> hasFrac,
         frac    |-> IF hasFrac THEN SubSeq(t, i1 + 1, i2 - 1) ELSE << >>,
         hasExp  |-> hasExp,
         expNeg  |-> hasSign /\ t[i2 + 1] = "-",
         exp     |-> IF hasExp THEN SubSeq(t, j, i3 - 1) ELSE << >>]

IntKinds == {"Int", "Int8", "Int16", "Int32", "Int64"}

UintKinds == {"Uint", "Uint8", "Uint16", "Uint32", "Uint64"}

FloatKinds == {"Float32", "Float64"}

\* The largest magnitude of a kind's values, as decimal text: reflect.Value.OverflowInt /
\* OverflowUint after strconv.ParseInt / ParseUint(item, 10, 64). int and uint are 64 bits wide.
MaxMagnitude(kind, neg) ==
    CASE kind = "Int8"   -> IF neg THEN <<"1","2","8">> ELSE <<"1","2","7">>
      [] kind = "Int16"  -> IF neg THEN <<"3","2","7","6","8">> ELSE <<"3","2","7","6","7">>
      [] kind = "Int32"  -> IF neg THEN <<"2","1","4","7","4","8","3","6","4","8">>
                                   ELSE <<"2","1","4","7","4","8","3","6","4","7">>
      [] kind \in {"Int", "Int64"} -> IF neg THEN MinInt64Magnitude ELSE MaxInt64
      [] kind = "Uint8"  -> <<"2","5","5">>
      [] kind = "Uint16" -> <<"6","5","5","3","5">>
      [] kind = "Uint32" -> <<"4","2","9","4","9","6","7","2","9","5">>
      [] kind \in {"Uint", "Uint64"} -> MaxUint64

\* typed values (reflect.Value): an integer keeps its sign and the decimal text of its magnitude
IntValue(kind, neg, digits) ==
    [kind |-> kind, neg |-> neg /\ FormatUint(digits) # <<"0">>, mag |-> FormatUint(digits)]

BoolValue(b) == [kind |-> "Bool", v |-> b]

StringValue(str) == [kind |-> "String", v |-> str]

\* s without its trailing "0" characters
RECURSIVE StripTrailingZeros(_)
StripTrailingZeros(s) ==
    IF s # << >> /\ s[Len(s)] = "0" THEN StripTrailingZeros(SubSeq(s, 1, Len(s) - 1)) ELSE s

\* A float is kept as the decimal it is nearest to: sign, significant digits and the
\* power of ten of the first of them (4.5 = 45 at 0; 0.045 = 45 at -2); zero has no digits.
FloatValue(kind, neg, digits, k) ==
    [kind |-> kind, neg |-> neg, digits |-> digits, k |-> IF digits = << >> THEN 0 ELSE k]

ZeroValue(kind) ==
    CASE kind = "Bool" -> BoolValue(FALSE)
      [] kind \in IntKinds \cup UintKinds -> IntValue(kind, FALSE, <<"0">>)
      [] kind \in FloatKinds -> FloatValue(kind, FALSE, << >>, 0)

\* the zero reflect.Value (val before any assignment)
InvalidValue == [kind |-> "Invalid"]

JsonError(what) == [type |-> "json.Error", what |-> what]

\* the largest decimal exponent of a finite float of the kind (3.4e38, 1.8e308), and the
\* first nine digits of the largest decimal that still rounds to a finite value
MaxExp10(kind) == IF kind = "Float32" THEN 38 ELSE 308

MaxLead9(kind) == IF kind = "Float32" THEN 340282356 ELSE 179769313

HugeExp == 99999

\* strconv.ParseFloat(item, bits) of a valid JSON number: the value, or a range error
ParseFloat(kind, n) ==
    LET all    == n.int \o n.frac
        lead   == SpanEnd(all, 1, {"0"}) - 1            \* leading zeros of the digits
        sig    == StripTrailingZeros(SubSeq(all, lead + 1, Len(all)))
        expTxt == StripZeros(n.exp)
        expMag == IF Len(expTxt) > 4 THEN HugeExp ELSE DigitsValue(expTxt)
        e      == IF n.expNeg THEN 0 - expMag ELSE expMag
        k      == Len(n.int) - 1 - lead + e
        pad    == [i \in 1..9 |-> IF i <= Len(sig) THEN sig[i] ELSE "0"]
        over   == sig # << >> /\ (k > MaxExp10(kind) \/ (k = MaxExp10(kind) /\ DigitsValue(pad) > MaxLead9(kind)))
    IN  IF over
        THEN [val |-> ZeroValue(kind), err |-> JsonError("number out of range")]
        ELSE [val |-> FloatValue(kind, n.neg, sig, k), err |-> NilErr]

\* literalStore: the trimmed token t, and n its reading as a JSON number
DecodeLiteral(kind, t, n) ==
    IF t = <<"n","u","l","l">>
    THEN [val |-> ZeroValue(kind), err |-> NilErr]     \* null leaves the zero value
    ELSE IF kind = "Bool"
    THEN IF t = <<"t","r","u","e">> THEN [val |-> BoolValue(TRUE), err |-> NilErr]
         ELSE IF t = <<"f","a","l","s","e">> THEN [val |-> BoolValue(FALSE), err |-> NilErr]
         ELSE [val |-> ZeroValue(kind), err |-> JsonError("not a bool")]
    ELSE IF ~n.valid
    THEN [val |-> ZeroValue(kind), err |-> JsonError("not a number")]
    ELSE IF kind \in FloatKinds
    THEN ParseFloat(kind, n)
    ELSE IF n.hasFrac \/ n.hasExp \/ (kind \in UintKinds /\ n.neg)
    THEN [val |-> ZeroValue(kind), err |-> JsonError("not an integer of the kind")]
    ELSE IF ~MagnitudeLeq(StripZeros(n.int), MaxMagnitude(kind, n.neg))
    THEN [val |-> ZeroValue(kind), err |-> JsonError("number out of range")]
    ELSE [val |-> IntValue(kind, n.neg, n.int), err |-> NilErr]

DecodeToken(kind, t) == DecodeLiteral(kind, t, JsonNumber(t))

\* json.Unmarshal([]byte(str), reflect.New(ttype).Interface()) -> (val.Elem(), err)
JsonUnmarshal(kind, str) == DecodeToken(kind, TrimJson(str))

----------------------------------------------------------------------------
(* The client handle s, a discordgo Session, and what its directory answers *)
(* A lookup that fails is [ok |-> FALSE]; a nil session panics when used.  *)

NilSession == [type |-> "nilSession"]

\* a nil *discordgo.MessageCreate
NilEvent == [type |-> "nilEvent"]

NoPanic == [type |-> "noPanic"]

Panic(what) == [type |-> "panic", what |-> what]

NotFound == [ok |-> FALSE]

Found(fields) == [ok |-> TRUE, v |-> fields]

\* s.Channel(id), s.User(id): the entity whose ID is id, or nil
NilEntity == [kind |-> "Ptr", nil |-> TRUE]

Entity(type, id) == [kind |-> "Ptr", nil |-> FALSE, type |-> type, ID |-> id]

SessionChannel(s, id) == IF id \in s.channels THEN Entity(channelType, id) ELSE NilEntity

SessionUser(s, id) == IF id \in s.users THEN Entity(userType, id) ELSE NilEntity

----------------------------------------------------------------------------
(* IsOwner, MemberHasPermissions                                           *)

\* a & b on naturals
RECURSIVE BitAnd(_, _)
BitAnd(a, b) ==
    IF a = 0 \/ b = 0 THEN 0
    ELSE 2 * BitAnd(a \div 2, b \div 2) + (IF a % 2 = 1 /\ b % 2 = 1 THEN 1 ELSE 0)

\* IsOwner(s, guildID, userID) -> (bool, error)
IsOwner(s, guildID, userID) ==
    LET guild == s.guild
    IN  IF ~guild.ok THEN [is |-> FALSE, err |-> TRUE]
        ELSE [is |-> guild.v.OwnerID = userID, err |-> FALSE]

\* the loop of MemberHasPermissions over member.Roles
RECURSIVE RolesIntersect(_, _, _)
RolesIntersect(s, roles, permission) ==
    IF roles = << >> THEN [has |-> FALSE, err |-> FALSE]
    ELSE LET role == MapGet(s.roles, Head(roles), NotFound)       \* s.State.Role
         IN  IF ~role.ok THEN [has |-> FALSE, err |-> TRUE]
             ELSE IF BitAnd(role.v.Permissions, permission) # 0 THEN [has |-> TRUE, err |-> FALSE]
             ELSE RolesIntersect(s, Tail(roles), permission)

\* MemberHasPermissions(s, guildID, userID, permission) -> (bool, error)
MemberHasPermissions(s, guildID, userID, permission) ==
    LET member == IF s.stateMember.ok THEN s.stateMember ELSE s.apiMember
    IN  IF ~member.ok THEN [has |-> FALSE, err |-> TRUE]
        ELSE RolesIntersect(s, member.v.Roles, permission)

----------------------------------------------------------------------------
(* CmdPredicate.Validate                                                   *)

\* denied when either check fails (a variant, to try C11 against)
PermissionDeniedEither(owner, perm) == ~owner \/ ~perm

\* the test `!owner && !perm` of Validate
PermissionDenied(owner, perm) == ~owner /\ ~perm

\* p.Custom(s, m, p): a custom check is "nil" or the outcome of calling it
CustomOutcomes == {"nil", "true", "false", "panic"}

\* a custom check that denies by returning false (a variant, to try C12 against)
CustomDeniesOnFalse(custom) == custom # "nil" /\ custom = "false"

\* the test `p.Custom != nil && p.Custom(s, m, p)` of Validate
CustomDenies(custom) == custom # "nil" /\ custom = "true"

\* Validate(s, m) -> [allowed, panic]
Validate(p, s, m) ==
    IF p.Permissions # 0 /\ (m = NilEvent \/ s = NilSession)
    THEN [allowed |-> FALSE, panic |-> Panic("nil pointer dereference")]
    ELSE IF /\ p.Permissions # 0
            /\ PermissionDenied(IsOwner(s, m.GuildID, m.Author.ID).is,
                                MemberHasPermissions(s, m.GuildID, m.Author.ID, p.Permissions).has)
    THEN [allowed |-> FALSE, panic |-> NoPanic]
    ELSE IF p.Custom = "panic"
    THEN [allowed |-> FALSE, panic |-> Panic("custom predicate")]
    ELSE IF CustomDenies(p.Custom)
    THEN [allowed |-> FALSE, panic |-> NoPanic]
    ELSE [allowed |-> TRUE, panic |-> NoPanic]

----------------------------------------------------------------------------
(* tryConvert                                                              *)

ChannelMention == <<"<", "#">>

UserMention == <<"<", "@", "!">>

\* what reflect.New(ttype) is left as when json.Unmarshal fails
NewValue(kind) == [kind |-> "Ptr", new |-> kind]

Asked(what, id) == [what |-> what, id |-> id]

\* the text "tryConvert: cannot parse channel" / "tryConvert: cannot parse user"
CannotParse(what) ==
    <<"t","r","y","C","o","n","v","e","r","t",":"," ","c","a","n","n","o","t"," ","p","a","r","s","e"," ">>
    \o (IF what = "channel" THEN <<"c","h","a","n","n","e","l">> ELSE <<"u","s","e","r">>)

\* the cases without their test `if chann == nil` / `if user == nil` after the second
\* lookup (a variant, to try C14 against)
ResolveUnchecked(s, what, str, id, first, second) ==
    IF s = NilSession
    THEN [val |-> InvalidValue, err |-> NilErr, lookups |-> << >>,
          panic |-> Panic("nil pointer dereference")]
    ELSE IF ~first.nil
    THEN [val |-> first, err |-> NilErr, lookups |-> <<Asked(what, id)>>, panic |-> NoPanic]
    ELSE [val |-> second, err |-> NilErr,
          lookups |-> <<Asked(what, id), Asked(what, str)>>, panic |-> NoPanic]

\* The channelType / userType cases, given id (what Sscanf left), first (the lookup of
\* id) and second (the lookup of the raw token, made only when the first finds nothing).
\* lookups lists the ids asked of the directory, in order.
ResolveWith(s, what, str, id, first, second) ==
    IF s = NilSession
    THEN [val |-> InvalidValue, err |-> NilErr, lookups |-> << >>,
          panic |-> Panic("nil pointer dereference")]
    ELSE IF ~first.nil
    THEN [val |-> first, err |-> NilErr, lookups |-> <<Asked(what, id)>>, panic |-> NoPanic]
    ELSE IF ~second.nil
    THEN [val |-> second, err |-> NilErr,
          lookups |-> <<Asked(what, id), Asked(what, str)>>, panic |-> NoPanic]
    ELSE [val |-> InvalidValue,
          err |-> UnmarshalError(ErrorString(CannotParse(what))),
          lookups |-> <<Asked(what, id), Asked(what, str)>>, panic |-> NoPanic]

SessionLookup(s, what, id) ==
    IF what = "channel" THEN SessionChannel(s, id) ELSE SessionUser(s, id)

ResolveID(s, what, str, id) ==
    ResolveWith(s, what, str, id, SessionLookup(s, what, id), SessionLookup(s, what, str))

Resolve(s, what, literal, str) == ResolveID(s, what, str, Sscanf(str, literal))

\* the default case of tryConvert, given r = json.Unmarshal's result
Unmarshalled(kind, r) ==
    IF r.err = NilErr
    THEN [val |-> r.val, err |-> NilErr, lookups |-> << >>, panic |-> NoPanic]
    ELSE [val |-> NewValue(kind), err |-> UnmarshalError(r.err), lookups |-> << >>, panic |-> NoPanic]

\* the body of tryConvert, before its deferred recover
tryConvertBody(s, ttype, str) ==
    IF ttype.kind = "String"
    THEN [val |-> StringValue(str), err |-> NilErr, lookups |-> << >>, panic |-> NoPanic]
    ELSE IF ttype.kind = "Ptr"
    THEN IF ttype = channelType THEN Resolve(s, "channel", ChannelMention, str)
         ELSE IF ttype = userType THEN Resolve(s, "user", UserMention, str)
         ELSE [val |-> InvalidValue,
               err |-> UnmarshalError(ErrorString(<<"tryConvert: can't unmarshal pointer to", ttype.elem.name>>)),
               lookups |-> << >>, panic |-> NoPanic]
    ELSE Unmarshalled(ttype.kind, JsonUnmarshal(ttype.kind, str))

\* the deferred closure of tryConvert: a panic becomes an UnmarshalError
RecoverConvert(r) ==
    IF r.panic # NoPanic
    THEN [r EXCEPT !.err = UnmarshalError(ErrorString(<<"tryConvert:", r.panic.what>>)),
                   !.panic = NoPanic]
    ELSE r

\* tryConvert(s, ttype, str) -> (val, err)
tryConvert(s, ttype, str) == RecoverConvert(tryConvertBody(s, ttype, str))

----------------------------------------------------------------------------
(* FnCmd.Invoke                                                            *)

\* append that puts the new value first (a variant, to try C7 against)
GoPrepend(vals, val) == <<val>> \o vals

\* append(vals, val), reflect.Append(slice, val)
GoAppend(vals, val) == Append(vals, val)

SliceValue(type, elems) == [kind |-> "Slice", type |-> type, v |-> elems]

\* reflect.ValueOf(s), reflect.ValueOf(m)
HandleValue(type, x) == [kind |-> "Ptr", type |-> type, to |-> x]

Converting(acc, type, token, r) ==
    [acc EXCEPT !.converted = Append(@, [type |-> type, token |-> token]),
                !.lookups = @ \o r.lookups]

RECURSIVE SliceLoop(_, _, _, _, _), SliceStep(_, _, _, _, _, _)

\* The inner loop `for ; c < len(args); c++` over the tokens of a trailing slice.
\* acc: the slice so far, the tokens handed to tryConvert and the directory lookups made.
SliceLoop(s, sliceType, args, c, acc) ==
    IF c > Len(args) THEN [acc EXCEPT !.err = NilErr]
    ELSE SliceStep(s, sliceType, args, c, acc, tryConvert(s, sliceType, args[c]))

\* a round that goes on to the next token after a failure (a variant, to try C19 against)
SliceStepSkipping(s, sliceType, args, c, acc, r) ==
    IF r.err # NilErr THEN SliceLoop(s, sliceType, args, c + 1, Converting(acc, sliceType, args[c], r))
    ELSE SliceLoop(s, sliceType, args, c + 1,
                   [Converting(acc, sliceType, args[c], r) EXCEPT !.vals = GoAppend(@, r.val)])

\* one round of it, r being tryConvert's result
SliceStep(s, sliceType, args, c, acc, r) ==
    IF r.err # NilErr THEN [Converting(acc, sliceType, args[c], r) EXCEPT !.err = r.err]
    ELSE SliceLoop(s, sliceType, args, c + 1,
                   [Converting(acc, sliceType, args[c], r) EXCEPT !.vals = GoAppend(@, r.val)])

\* after the inner loop: the slice is the last value, or its error ends the invocation
SliceDone(acc, expect, r) ==
    IF r.err # NilErr
    THEN [r EXCEPT !.vals = acc.vals]
    ELSE [r EXCEPT !.vals = GoAppend(acc.vals, SliceValue(expect, r.vals))]

RECURSIVE ArgLoop(_, _, _, _, _), ArgStep(_, _, _, _, _, _)

\* The loop `for c := 0; c < len(args); c++` of Invoke (c is 1-based here).
ArgLoop(s, paramTypes, args, c, acc) ==
    IF c > Len(args) THEN [acc EXCEPT !.err = NilErr]
    ELSE IF paramTypes[c].kind = "Slice"
    THEN SliceDone(acc, paramTypes[c],
                   SliceLoop(s, paramTypes[c].elem, args, c, [acc EXCEPT !.vals = << >>]))
    ELSE ArgStep(s, paramTypes, args, c, acc, tryConvert(s, paramTypes[c], args[c]))

\* one round of it for a parameter that is no slice, r being tryConvert's result
ArgStep(s, paramTypes, args, c, acc, r) ==
    IF r.err # NilErr THEN [Converting(acc, paramTypes[c], args[c], r) EXCEPT !.err = r.err]
    ELSE ArgLoop(s, paramTypes, args, c + 1,
                 [Converting(acc, paramTypes[c], args[c], r) EXCEPT !.vals = GoAppend(@, r.val)])

\* the test `actualLen < expectLen || (!sliceReceiver && actualLen > expectLen)`
ArityMismatch(expectLen, actualLen, sliceReceiver) ==
    actualLen < expectLen \/ (~sliceReceiver /\ actualLen > expectLen)

\* What an invocation did: the error returned, the calls of the command body (each
\* the list of values passed), the tokens handed to tryConvert, the directory
\* lookups made, and the panic (if any) that leaves the function.
Outcome(err, calls, converted, lookups, panic) ==
    [err |-> err, calls |-> calls, converted |-> converted, lookups |-> lookups, panic |-> panic]

\* the end of Invoke, r being the loop's result: its error, or the call of the body
CallBody(cmd, r) ==
    IF r.err # NilErr
    THEN Outcome(r.err, << >>, r.converted, r.lookups, NoPanic)
    ELSE Outcome(NilErr, <<r.vals>>, r.converted, r.lookups,     \* reflect.Call
                 IF cmd.fn.body = "panic" THEN Panic("command body") ELSE NoPanic)

\* Invoke from the arity check on
Checked(cmd, s, m, args, expectLen, actualLen) ==
    IF expectLen = 0                                   \* cmd.paramTypes[expectLen-1]
    THEN Outcome(NilErr, << >>, << >>, << >>, Panic("index out of range [-1]"))
    ELSE IF ArityMismatch(expectLen, actualLen, cmd.paramTypes[expectLen].kind = "Slice")
    THEN Outcome(ArgCountMismatch(expectLen, actualLen), << >>, << >>, << >>, NoPanic)
    ELSE CallBody(cmd, ArgLoop(s, cmd.paramTypes, args, 1,
                     [vals |-> <<HandleValue(sessionType, s), HandleValue(messageEventType, m)>>,
                      err |-> NilErr, converted |-> << >>, lookups |-> << >>]))

\* Validated without the return that follows `err = AccessDenied{}` (a variant, to
\* try C4 against)
ValidatedNoReturn(cmd, s, m, args, v) ==
    IF v.panic # NoPanic THEN Outcome(NilErr, << >>, << >>, << >>, v.panic)
    ELSE Checked(cmd, s, m, args, Len(cmd.paramTypes), Len(args))

\* Invoke after cmd.Predicate.Validate(s, m) returned v
Validated(cmd, s, m, args, v) ==
    IF v.panic # NoPanic THEN Outcome(NilErr, << >>, << >>, << >>, v.panic)
    ELSE IF ~v.allowed THEN Outcome(AccessDenied, << >>, << >>, << >>, NoPanic)
    ELSE Checked(cmd, s, m, args, Len(cmd.paramTypes), Len(args))

\* the body of Invoke, before its deferred recover
InvokeBody(cmd, s, m, args) == Validated(cmd, s, m, args, Validate(cmd.Predicate, s, m))

\* Invoke without its deferred recover (a variant, to try C3 against)
LetThrough(r) == r

\* the deferred closure of Invoke: if e := recover(); e != nil { err = fmt.Errorf(...) }
Recover(r) ==
    IF r.panic # NoPanic
    THEN [r EXCEPT !.err = ErrorString(<<"Cmd.Invoke:", r.panic.what>>), !.panic = NoPanic]
    ELSE r

\* cmd.Invoke(s, m, args) -> err
Invoke(cmd, s, m, args) == Recover(InvokeBody(cmd, s, m, args))

\* A call about to be made, with its inputs
Call(cmd, s, m, args) == [op |-> "call", cmd |-> cmd, s |-> s, m |-> m, args |-> args]

\* the action: the pending call of cmd.Invoke(s, m, args) runs
InvokeOp ==
    /\ last.op = "call"
    /\ last' = [op |-> "Invoke", cmd |-> last.cmd, s |-> last.s, m |-> last.m, args |-> last.args,
                res |-> Invoke(last.cmd, last.s, last.m, last.args)]
    /\ UNCHANGED <<Cmds, Aliases, firstAdd>>

----------------------------------------------------------------------------
(* CmdRegister.Handle                                                      *)

\* the first position of s from i on where sub starts, 0 if there is none
RECURSIVE IndexFrom(_, _, _)
IndexFrom(s, sub, i) ==
    IF i + Len(sub) - 1 > Len(s) THEN 0
    ELSE IF SubSeq(s, i, i + Len(sub) - 1) = sub THEN i
    ELSE IndexFrom(s, sub, i + 1)

\* the pieces that are not empty, as strings.Fields gives them (a variant, to try C20
\* against)
RECURSIVE SplitFields(_, _)
SplitFields(s, sep) ==
    IF IndexFrom(s, sep, 1) = 0 THEN (IF s = << >> THEN << >> ELSE <<s>>)
    ELSE (IF IndexFrom(s, sep, 1) = 1 THEN << >> ELSE <<SubSeq(s, 1, IndexFrom(s, sep, 1) - 1)>>)
         \o SplitFields(SubSeq(s, IndexFrom(s, sep, 1) + Len(sep), Len(s)), sep)

\* strings.Split(s, sep) for a non-empty sep: the pieces between the separators, one
\* piece (s itself) if there is no separator
RECURSIVE Split(_, _)
Split(s, sep) ==
    IF IndexFrom(s, sep, 1) = 0 THEN <<s>>
    ELSE <<SubSeq(s, 1, IndexFrom(s, sep, 1) - 1)>>
         \o Split(SubSeq(s, IndexFrom(s, sep, 1) + Len(sep), Len(s)), sep)

\* strings.Replace(s, old, new, n) for n >= 0: the first n occurrences of old replaced
\* by new; an empty old matches before each character
RECURSIVE Replace(_, _, _, _)
Replace(s, old, new, n) ==
    IF n = 0 THEN s
    ELSE IF old = << >>
    THEN IF s = << >> THEN new ELSE new \o <<Head(s)>> \o Replace(Tail(s), old, new, n - 1)
    ELSE IF IndexFrom(s, old, 1) = 0 THEN s
    ELSE SubSeq(s, 1, IndexFrom(s, old, 1) - 1) \o new
         \o Replace(SubSeq(s, IndexFrom(s, old, 1) + Len(old), Len(s)), old, new, n - 1)

\* a handler that is not nil, known by its name
HandlerFn(name) == [type |-> "handler", name |-> name]

\* cmd.ErrorHandler()
ErrorHandler(cmd) == cmd.ErrHandler

\* What a dispatch did: the names looked up in the register, the invocations made
\* (command, tokens, error returned), the calls of error handlers (handler, error),
\* and the panic (if any) that leaves Handle.
Dispatch(lookedUp, invoked, handled, panic) ==
    [lookedUp |-> lookedUp, invoked |-> invoked, handled |-> handled, panic |-> panic]

\* the fallback handler takes precedence over the command's own (a variant, to try
\* C8 against)
PickFallbackFirst(errHandler, cmdHandler) ==
    IF errHandler # NilHandler THEN errHandler ELSE cmdHandler

\* handler := errHandler; if cmdHandler := cmd.ErrorHandler(); cmdHandler != nil { handler = cmdHandler }
PickHandler(errHandler, cmdHandler) ==
    IF cmdHandler # NilHandler THEN cmdHandler ELSE errHandler

\* if err != nil && handler != nil { handler(s, msg, err) }
Report(err, handler) ==
    IF err # NilErr /\ handler # NilHandler THEN <<[handler |-> handler, err |-> err]>> ELSE << >>

\* Handle once cmd.Invoke(s, msg, args[1:]) returned res
Dispatched(cmd, str, args, errHandler, res) ==
    Dispatch(<<str>>, <<[cmd |-> cmd, args |-> args, err |-> res.err, calls |-> res.calls]>>,
             Report(res.err, PickHandler(errHandler, ErrorHandler(cmd))), NoPanic)

\* an unknown name told to the fallback handler (a variant, to try C10 against)
UnresolvedReported(str, errHandler) ==
    Dispatch(<<str>>, << >>, Report(ErrorString(<<"unknown command">>), errHandler), NoPanic)

\* cmd == nil: nothing more happens
Unresolved(str, errHandler) == Dispatch(<<str>>, << >>, << >>, NoPanic)

\* Handle once reg.Get(str) returned cmd
LookedUp(s, msg, errHandler, args, str, cmd) ==
    IF cmd = NilCmd THEN Unresolved(str, errHandler)
    ELSE Dispatched(cmd, str, Tail(args), errHandler, Invoke(cmd, s, msg, Tail(args)))

\* Handle from strings.Split on: str := strings.Replace(args[0], pfx, "", 1); cmd := reg.Get(str)
Prefixed(cmds, aliases, s, msg, pfx, errHandler, args) ==
    LookedUp(s, msg, errHandler, args, Replace(args[1], pfx, EmptyStr, 1),
             Get(cmds, aliases, Replace(args[1], pfx, EmptyStr, 1)))

\* the author is the other party (a variant, to try C9 against)
NotSelfAuthored(s, msg) == msg.Author.ID # s.selfID

\* msg.Author.ID == s.State.User.ID
SelfAuthored(s, msg) == msg.Author.ID = s.selfID

\* reg.Handle(s, msg, pfx, errHandler) on the register (cmds, aliases)
Handle(cmds, aliases, s, msg, pfx, errHandler) ==
    IF msg = NilEvent \/ s = NilSession
    THEN Dispatch(<< >>, << >>, << >>, Panic("nil pointer dereference"))
    ELSE IF SelfAuthored(s, msg) THEN Dispatch(<< >>, << >>, << >>, NoPanic)
    ELSE IF ~HasPrefix(msg.Content, pfx) THEN Dispatch(<< >>, << >>, << >>, NoPanic)
    ELSE Prefixed(cmds, aliases, s, msg, pfx, errHandler, Split(msg.Content, <<" ">>))

\* the function reg.Handler(pfx, errHandler) returns, applied to (s, msg)
Handler(cmds, aliases, pfx, errHandler, s, msg) == Handle(cmds, aliases, s, msg, pfx, errHandler)

\* the action: an event is dispatched on the register
HandleOp(s, msg, pfx, errHandler) ==
    /\ last' = [op |-> "Handle", s |-> s, msg |-> msg, pfx |-> pfx, errHandler |-> errHandler,
                res |-> Handler(Cmds, Aliases, pfx, errHandler, s, msg)]
    /\ UNCHANGED <<Cmds, Aliases, firstAdd>>

----------------------------------------------------------------------------
(* Sample callables and descriptors                                        *)

\* func(s *discordgo.Session, m *discordgo.MessageCreate)
fnPing == Func(<<sessionType, messageEventType>>, "return")

\* func(s *discordgo.Session, m *discordgo.MessageCreate, text string)
fnSay == Func(<<sessionType, messageEventType, Scalar("String")>>, "return")

NoPredicate == [Permissions |-> 0, Custom |-> "nil"]

cmdPing == Command(fnPing, <<"ping">>, NilHandler).cmd

cmdSay == Command(fnSay, <<"say">>, NilHandler).cmd

\* func(s, m, text string) whose body panics
fnBoom == Func(<<sessionType, messageEventType, Scalar("String")>>, "panic")

\* func(s, m, who *discordgo.User, reason []string)
fnKick == Func(<<sessionType, messageEventType, userType, SliceOf(Scalar("String"))>>, "return")

\* func(s, m, sides int8, verbose bool)
fnRoll == Func(<<sessionType, messageEventType, Scalar("Int8"), Scalar("Bool")>>, "return")

\* func(s, m, terms []uint8)
fnSum == Func(<<sessionType, messageEventType, SliceOf(Scalar("Uint8"))>>, "return")

\* func(s, m, where *discordgo.Channel, weight float32)
fnTopic == Func(<<sessionType, messageEventType, channelType, Scalar("Float32")>>, "return")

\* TestInvoke's stub: func(s, m, ui uint, i int, str string, b bool, f float32, d float64, things []string)
fnStub ==
    Func(<<sessionType, messageEventType, Scalar("Uint"), Scalar("Int"), Scalar("String"), Scalar("Bool"),
           Scalar("Float32"), Scalar("Float64"), SliceOf(Scalar("String"))>>, "return")

\* MustCommand(fn, help, errHandler): the descriptor (Command's error would be a panic at set-up)
MustCommand(fn, help, errHandler) == Command(fn, help, errHandler).cmd

\* MustPredicatedCommand(fn, help, errHandler, predicate)
MustPredicatedCommand(fn, help, errHandler, predicate) ==
    PredicatedCommand(fn, help, errHandler, predicate).cmd

\* tokens
T3 == <<"3">>

TMinus2 == <<"-", "2">>

THello == <<"h", "e", "l", "l", "o">>

TThere == <<"t", "h", "e", "r", "e">>

TTrue == <<"t", "r", "u", "e">>

T4p5 == <<"4", ".", "5">>

TPi == <<"3", ".", "1", "4", "1", "5", "9", "2", "6">>

T300 == <<"3", "0", "0">>

TMention7 == <<"<", "@", "!", "7", ">">>

\* user and guild identities
U7 == <<"7">>

U8 == <<"8">>

BotID == <<"1">>

Member(roles) == Found([Roles |-> roles])

Role(permissions) == Found([Permissions |-> permissions])

Guild(ownerID) == Found([OwnerID |-> ownerID])

Session(guild, stateMember, apiMember, roles) ==
    [type |-> "Session", selfID |-> BotID, guild |-> guild, stateMember |-> stateMember,
     apiMember |-> apiMember, roles |-> roles, channels |-> {T3}, users |-> {U7}]

GuildRoles == [r \in {"r1", "r2"} |-> IF r = "r1" THEN Role(1) ELSE Role(6)]

\* the author U7 owns the guild
sOwner == Session(Guild(U7), Member(<< >>), NotFound, GuildRoles)

\* U7 holds r1 (permissions 1) and r2 (permissions 6); the member is known to the API only
sRole == Session(Guild(U8), NotFound, Member(<<"r1", "r2">>), GuildRoles)

\* U7 holds r1 only
sPlain == Session(Guild(U8), Member(<<"r1">>), NotFound, GuildRoles)

\* the directory answers nothing
sDown == Session(NotFound, NotFound, NotFound, EmptyMap)

Event(authorID, content) == [Author |-> [ID |-> authorID], GuildID |-> "g", Content |-> content]

----------------------------------------------------------------------------
(* Specification of Invoke: one direct call per behaviour                  *)

MaxArgs == 2

InvFns == {fnPing, fnSay, fnBoom, fnKick, fnRoll, fnSum, fnTopic}

InvPredicates == [Permissions : {0, 2}, Custom : CustomOutcomes]

InvCmds == {MustPredicatedCommand(fn, <<"cmd">>, NilHandler, p) : fn \in InvFns, p \in InvPredicates}

InvSessions == {NilSession, sOwner, sRole, sPlain, sDown}

InvTokens == {T3, TMinus2, THello, TTrue, T300, TMention7}

InvArgs == UNION {[1..n -> InvTokens] : n \in 0..MaxArgs}

TestTokens == <<T3, TMinus2, THello, TTrue, T4p5, TPi, THello, TThere>>

\* TestInvoke: stub.Invoke(nil, nil, tokens)
TestCall == [Call(MustCommand(fnStub, <<"Test function">>, NilHandler), NilSession, NilEvent, TestTokens)
                EXCEPT !.op = "call TestInvoke"]

TestInvoke ==
    /\ last.op = "call TestInvoke"
    /\ last' = [op |-> "Invoke", cmd |-> last.cmd, s |-> last.s, m |-> last.m, args |-> last.args,
                res |-> Invoke(last.cmd, last.s, last.m, last.args)]
    /\ UNCHANGED <<Cmds, Aliases, firstAdd>>

\* Invoke reads no state of the register and changes none: each behaviour is one call,
\* its inputs drawn by the initial state.
InitInvoke ==
    /\ Register
    /\ firstAdd = EmptyMap
    /\ last \in {Call(cmd, s, Event(U7, << >>), args) : cmd \in InvCmds, s \in InvSessions, args \in InvArgs}
                \cup {TestCall}

NextInvoke ==
    \/ InvokeOp
    \/ TestInvoke

SpecInvoke == InitInvoke /\ [][NextInvoke]_vars

----------------------------------------------------------------------------
(* Specification of the register: any sequence of Add and Alias            *)

MaxNames == 2

Letters == <<"a", "b", "c", "d", "e">>

\* the empty name and MaxNames one-letter names
RegNames == {EmptyStr} \cup {<<Letters[i]>> : i \in 1..MaxNames}

RegCmds == {cmdPing, cmdSay}

NextRegister ==
    \/ \E name \in RegNames, cmd \in RegCmds : Add(name, cmd)
    \/ \E name \in RegNames, dest \in RegNames : Alias(name, dest)

SpecRegister == Init /\ [][NextRegister]_vars

----------------------------------------------------------------------------
(* Specification of dispatch: a register is filled and events are handled  *)

hOwn == HandlerFn("command")

hFallback == HandlerFn("fallback")

\* a command with an error handler of its own, and one without
cmdSum == MustCommand(fnSum, <<"sum">>, hOwn)

cmdEcho == MustCommand(fnSay, <<"echo">>, NilHandler)

HandleCmds == {cmdSum, cmdEcho}

HandleNames == {<<"a">>, <<"b">>, <<"c">>}

\* "!a 3", "!a hello", "!b", "a 3", "!c 3", "!", "!a  3" (two spaces)
HandleContents ==
    {<<"!", "a", " ", "3">>, <<"!", "a", " ", "h", "e", "l", "l", "o">>, <<"!", "b">>,
     <<"a", " ", "3">>, <<"!", "c", " ", "3">>, <<"!">>, <<"!", "a", " ", " ", "3">>}

\* "!", the empty prefix, and "a " (a prefix with a space in it)
HandlePrefixes == {<<"!">>, EmptyStr, <<"a", " ">>}

HandleAuthors == {U7, BotID}

HandleSessions == {sPlain, NilSession}

HandleFallbacks == {NilHandler, hFallback}

\* The calls of Handle: every event, prefix and fallback handler on the working
\* client handle; on the nil one, where Handle panics at once, one of them.
HandleCalls ==
    {call \in [s : HandleSessions, author : HandleAuthors, content : HandleContents,
               pfx : HandlePrefixes, errHandler : HandleFallbacks] :
        call.s = NilSession =>
            /\ call.author = U7 /\ call.content = <<"!", "a", " ", "3">>
            /\ call.pfx = <<"!">> /\ call.errHandler = NilHandler}

NextHandle ==
    \/ \E name \in HandleNames, cmd \in HandleCmds : Add(name, cmd)
    \/ \E name \in HandleNames, dest \in HandleNames : Alias(name, dest)
    \/ \E call \in HandleCalls :
            HandleOp(call.s, Event(call.author, call.content), call.pfx, call.errHandler)

SpecHandle == Init /\ [][NextHandle]_vars

----------------------------------------------------------------------------
(* Specification of Validate: one direct call per behaviour                *)

MaxRoles == 2

\* r1 and r2 are roles of the guild, r3 is one the directory does not know
RoleNames == {"r1", "r2", "r3"}

RoleLists == UNION {[1..n -> RoleNames] : n \in 0..MaxRoles}

ValMembers == {NotFound} \cup {Member(roles) : roles \in RoleLists}

ValSessions ==
    {NilSession} \cup {Session(guild, stateMember, apiMember, GuildRoles) :
                          guild \in {NotFound, Guild(U7), Guild(U8)},
                          stateMember \in ValMembers, apiMember \in ValMembers}

ValPredicates == [Permissions : {0, 1, 2, 8}, Custom : CustomOutcomes]

ValEvents == {NilEvent, Event(U7, EmptyStr)}

\* the action: the pending call of p.Validate(s, m) runs
ValidateOp ==
    /\ last.op = "call Validate"
    /\ last' = [op |-> "Validate", p |-> last.p, s |-> last.s, m |-> last.m,
                res |-> Validate(last.p, last.s, last.m)]
    /\ UNCHANGED <<Cmds, Aliases, firstAdd>>

InitValidate ==
    /\ Register
    /\ firstAdd = EmptyMap
    /\ last \in {[op |-> "call Validate", p |-> p, s |-> s, m |-> m] :
                    p \in ValPredicates, s \in ValSessions, m \in ValEvents}

NextValidate == ValidateOp

SpecValidate == InitValidate /\ [][NextValidate]_vars

----------------------------------------------------------------------------
(* Specification of tryConvert: one direct call per behaviour              *)

\* magnitudes around the limits of the 8, 16, 32 and 64 bit integers
ConvMagnitudes ==
    {<<"0">>, <<"3">>, <<"1","2","7">>, <<"1","2","8">>, <<"1","2","9">>, <<"2","5","5">>, <<"2","5","6">>,
     <<"3","2","7","6","7">>, <<"3","2","7","6","8">>, <<"3","2","7","6","9">>,
     <<"6","5","5","3","5">>, <<"6","5","5","3","6">>,
     <<"2","1","4","7","4","8","3","6","4","7">>, <<"2","1","4","7","4","8","3","6","4","8">>,
     <<"2","1","4","7","4","8","3","6","4","9">>,
     <<"4","2","9","4","9","6","7","2","9","5">>, <<"4","2","9","4","9","6","7","2","9","6">>,
     <<"9","2","2","3","3","7","2","0","3","6","8","5","4","7","7","5","8","0","7">>,
     <<"9","2","2","3","3","7","2","0","3","6","8","5","4","7","7","5","8","0","8">>,
     <<"9","2","2","3","3","7","2","0","3","6","8","5","4","7","7","5","8","0","9">>,
     <<"1","8","4","4","6","7","4","4","0","7","3","7","0","9","5","5","1","6","1","5">>,
     <<"1","8","4","4","6","7","4","4","0","7","3","7","0","9","5","5","1","6","1","6">>}

\* each magnitude bare, with a sign, and with a leading zero
ConvIntTokens ==
    {sign \o pad \o mag : sign \in {EmptyStr, <<"-">>, <<"+">>}, pad \in {EmptyStr, <<"0">>},
                          mag \in ConvMagnitudes}

ConvIntTypes == {Scalar(kind) : kind \in IntKinds \cup UintKinds}

ConvCalls ==
    {[op |-> "call tryConvert", s |-> NilSession, ttype |-> ttype, str |-> str] :
        ttype \in ConvIntTypes, str \in ConvIntTokens}

\* the action: the pending call of tryConvert(s, ttype, str) runs
tryConvertOp ==
    /\ last.op = "call tryConvert"
    /\ last' = [op |-> "tryConvert", s |-> last.s, ttype |-> last.ttype, str |-> last.str,
                res |-> tryConvert(last.s, last.ttype, last.str)]
    /\ UNCHANGED <<Cmds, Aliases, firstAdd>>

InitConvert ==
    /\ Register
    /\ firstAdd = EmptyMap
    /\ last \in ConvCalls

NextConvert == tryConvertOp

SpecConvert == InitConvert /\ [][NextConvert]_vars

----------------------------------------------------------------------------
(* Specification of tryConvert on entity references: one call per behaviour *)

\* tokens for a channel or user parameter: mentions, mentions cut short or with
\* something after them, bare identifiers, and a word
ResolveTokens ==
    {<<"<", "#", "3", ">">>, <<"<", "#", "3">>, <<"<", "#", "3", ">", "x">>, <<"<", "#", "3", "a", ">">>,
     <<"<", "#", " ", "3", ">">>, <<"<", "#", "0", "3", ">">>, <<"<", "#", "9", ">">>,
     <<"<", "@", "!", "7", ">">>, <<"<", "@", "!", "7">>, <<"<", "@", "7", ">">>,
     T3, U7, <<"9">>, THello}

\* the identifiers the directory may know, as channels and as users
ResolveDirectories == SUBSET {T3, U7}

ResolveSessions == {[sPlain EXCEPT !.channels = d, !.users = d] : d \in ResolveDirectories}

ResolveCalls ==
    {[op |-> "call tryConvert", s |-> s, ttype |-> ttype, str |-> str] :
        s \in ResolveSessions, ttype \in {channelType, userType}, str \in ResolveTokens}

InitResolve ==
    /\ Register
    /\ firstAdd = EmptyMap
    /\ last \in ResolveCalls

NextResolve == tryConvertOp

SpecResolve == InitResolve /\ [][NextResolve]_vars

----------------------------------------------------------------------------
(* Specification of Command: one direct call per behaviour                 *)

MaxParams == 2

\* types a Go function can declare for a parameter
ParamTypes ==
    {Scalar("String"), Scalar("Bool"), Scalar("Int8"), Scalar("Uint"), Scalar("Float32"),
     Scalar("Complex128"), Scalar("Struct"), Scalar("Map"), Scalar("Interface"), Scalar("Uintptr"),
     userType, channelType, sessionType, PtrTo("discordgo.Role"),
     SliceOf(Scalar("String")), SliceOf(userType), SliceOf(SliceOf(Scalar("String"))),
     SliceOf(Scalar("Struct"))}

\* types of the first two parameters
HeadTypes == {sessionType, messageEventType, userType}

\* parameter lists: too short ones, and two leading parameters followed by up to MaxParams more
ParamLists ==
    {<< >>, <<sessionType>>}
    \cup {<<first, second>> \o rest : first \in HeadTypes, second \in HeadTypes,
                                      rest \in UNION {[1..n -> ParamTypes] : n \in 0..MaxParams}}

\* values handed to Command as fn: functions, and a value that is no function
FnValues == {Func(in, "return") : in \in ParamLists} \cup {[kind |-> "Int", in |-> << >>, body |-> "return"]}

\* the action: the pending call of Command(fn, help, errHandler) runs
CommandOp ==
    /\ last.op = "call Command"
    /\ last' = [op |-> "Command", fn |-> last.fn, res |-> Command(last.fn, <<"help">>, NilHandler)]
    /\ UNCHANGED <<Cmds, Aliases, firstAdd>>

InitCommand ==
    /\ Register
    /\ firstAdd = EmptyMap
    /\ last \in {[op |-> "call Command", fn |-> fn] : fn \in FnValues}

NextCommand == CommandOp

SpecCommand == InitCommand /\ [][NextCommand]_vars

----------------------------------------------------------------------------
(* Claims about the register                                               *)

\* C1: once Add(name, d1) has succeeded, every later Add(name, d2) returns a
\* conflict error and the command map still maps name to d1.
\* (Every step that changes the state sets last to the operation it performed.)
C1_SecondAddConflicts ==
    [][(last'.op = "Add" /\ last'.name \in DOMAIN firstAdd)
        => /\ last'.err # NilErr
           /\ MapGet(Cmds', last'.name, NilCmd) = firstAdd[last'.name]]_vars

\* C2: Alias(name, dest) fails if dest does not resolve; it succeeds if and only
\* if dest resolves and name does not; and after a successful Alias(name, dest),
\* Canon(name) returns dest.
C2_AliasContract ==
    [][last'.op = "Alias"
        => LET destResolves == Get(Cmds, Aliases, last'.dest) # NilCmd
               nameResolves == Get(Cmds, Aliases, last'.name) # NilCmd
           IN  /\ ~destResolves => last'.err # NilErr
               /\ last'.err = NilErr <=> (destResolves /\ ~nameResolves)
               /\ last'.err = NilErr => Canon(Aliases', last'.name) = last'.dest]_vars

----------------------------------------------------------------------------
(* Claims about Invoke                                                     *)

\* a call of Invoke has returned (or let a panic through)
Invoked == last.op = "Invoke"

\* what the body of Invoke did before the deferred recover ran
Raw == InvokeBody(last.cmd, last.s, last.m, last.args)

\* tryConvert's body panics on one of the tokens that were handed to it
ConversionFault ==
    \E i \in 1..Len(last.res.converted) :
        tryConvertBody(last.s, last.res.converted[i].type, last.res.converted[i].token).panic # NoPanic

\* C3: no panic leaves Invoke; a panic raised by the predicate, the arity check or
\* the command body, and a panic raised inside a conversion, each end in a non-nil
\* returned error.
C3_NoPanicEscapes ==
    Invoked =>
        /\ last.res.panic = NoPanic
        /\ Raw.panic # NoPanic => last.res.err # NilErr
        /\ ConversionFault => last.res.err # NilErr

\* a state where the command body panicked and Invoke returned an error
C3_Witness ==
    /\ Invoked
    /\ Raw.panic = Panic("command body")
    /\ last.res.calls # << >>
    /\ last.res.err # NilErr

\* the author of the event is the owner of the guild, as the directory tells
AuthorIsOwner == last.s.guild.ok /\ last.s.guild.v.OwnerID = last.m.Author.ID

\* a role list the directory gives for the author holds a role it knows to intersect mask
AuthorHoldsRole(mask) ==
    \E member \in {last.s.stateMember, last.s.apiMember} :
        /\ member.ok
        /\ \E i \in 1..Len(member.v.Roles) :
               /\ member.v.Roles[i] \in DOMAIN last.s.roles
               /\ last.s.roles[member.v.Roles[i]].ok
               /\ BitAnd(last.s.roles[member.v.Roles[i]].v.Permissions, mask) # 0

\* the predicate asks for permissions that the author, on a working client handle, lacks
Unauthorized ==
    /\ last.cmd.Predicate.Permissions # 0
    /\ last.s # NilSession
    /\ ~AuthorIsOwner
    /\ ~AuthorHoldsRole(last.cmd.Predicate.Permissions)

\* C4: with a nonzero permission bitmask and an author who is neither the owner nor
\* holder of an intersecting role, Invoke returns AccessDenied whatever the tokens
\* are: no token is converted, no entity is looked up, the body is not called.
C4_DeniedBeforeAnything ==
    (Invoked /\ Unauthorized) =>
        /\ last.res.err = AccessDenied
        /\ last.res.converted = << >>
        /\ last.res.lookups = << >>
        /\ last.res.calls = << >>

\* denied although the arity is wrong and the one token names a user the directory knows
C4_Witness ==
    /\ Invoked /\ Unauthorized
    /\ last.cmd.fn = fnKick
    /\ last.args = <<TMention7>>
    /\ last.res.err = AccessDenied

\* the number of declared parameters that are not the trailing slice
NonVariadic(paramTypes) ==
    IF paramTypes # << >> /\ paramTypes[Len(paramTypes)].kind = "Slice"
    THEN Len(paramTypes) - 1
    ELSE Len(paramTypes)

TooFewTokens == Len(last.args) < NonVariadic(last.cmd.paramTypes)

MismatchReported ==
    /\ last.res.err = [type |-> "ArgCountMismatch",
                       Expected |-> Len(last.cmd.paramTypes), Got |-> Len(last.args)]
    /\ last.res.calls = << >>

\* C5 as stated: fewer tokens than non-variadic parameters always gives
\* ArgCountMismatch{declared parameters, tokens}, and the body is not called.
C5_TooFewAlwaysMismatch == (Invoked /\ TooFewTokens) => MismatchReported

\* the predicate let the call through
PredicateAllows == Validate(last.cmd.Predicate, last.s, last.m) = [allowed |-> TRUE, panic |-> NoPanic]

\* C5 (amended): when the predicate allows the call, fewer tokens than non-variadic
\* parameters gives ArgCountMismatch{declared parameters, tokens}, and the body is
\* not called.
C5_TooFewMismatchWhenAllowed == (Invoked /\ PredicateAllows /\ TooFewTokens) => MismatchReported

\* one token for (int8, bool): ArgCountMismatch{2, 1}
C5_Witness ==
    /\ Invoked /\ PredicateAllows
    /\ last.cmd.fn = fnRoll
    /\ last.args = <<T3>>
    /\ last.res.err = [type |-> "ArgCountMismatch", Expected |-> 2, Got |-> 1]
    /\ last.res.calls = << >>

\* the arity rule of the specification
ArityRule(paramTypes, n) ==
    IF paramTypes # << >> /\ paramTypes[Len(paramTypes)].kind = "Slice"
    THEN n >= Len(paramTypes) - 1
    ELSE n = Len(paramTypes)

\* C6: with an allowing predicate, ArgCountMismatch is returned exactly for the token
\* lists the arity rule rejects (with a trailing slice: fewer than expected - 1
\* tokens; without: any length but expected), and with a trailing slice and exactly
\* expected - 1 tokens the body is called with an empty slice.
C6_ArityRule ==
    (Invoked /\ PredicateAllows) =>
        /\ last.res.err.type = "ArgCountMismatch" <=> ~ArityRule(last.cmd.paramTypes, Len(last.args))
        /\ ( /\ NonVariadic(last.cmd.paramTypes) < Len(last.cmd.paramTypes)
             /\ Len(last.args) = NonVariadic(last.cmd.paramTypes)
             /\ \A i \in 1..Len(last.args) :
                    tryConvert(last.s, last.cmd.paramTypes[i], last.args[i]).err = NilErr )
           => /\ Len(last.res.calls) = 1
              /\ last.res.calls[1][Len(last.res.calls[1])].v = << >>

\* a token list the arity rule accepts and the code turns away: ArgCountMismatch{1, 0}
\* for a command whose one parameter is a slice
C6_Rejected ==
    /\ Invoked /\ PredicateAllows
    /\ last.cmd.fn = fnSum
    /\ last.args = << >>
    /\ last.res.err = [type |-> "ArgCountMismatch", Expected |-> 1, Got |-> 0]

\* the type the i-th token is converted to: the i-th declared type, or the element
\* type of the trailing slice from its position on
ExpectedType(paramTypes, i) ==
    IF i >= Len(paramTypes) /\ paramTypes[Len(paramTypes)].kind = "Slice"
    THEN paramTypes[Len(paramTypes)].elem
    ELSE paramTypes[i]

\* the conversion of the i-th token of the call
Conversion(i) == tryConvert(last.s, ExpectedType(last.cmd.paramTypes, i), last.args[i])

\* the code's arity check lets the call through
ArityPasses ==
    /\ last.cmd.paramTypes # << >>
    /\ ~ArityMismatch(Len(last.cmd.paramTypes), Len(last.args),
                      last.cmd.paramTypes[Len(last.cmd.paramTypes)].kind = "Slice")

Convertible == Invoked /\ PredicateAllows /\ ArityPasses /\ \A i \in 1..Len(last.args) : Conversion(i).err = NilErr

\* (client handle, event, v1, ..., vn): positional conversions, the trailing slice
\* holding those of all remaining tokens in their order
PositionalValues ==
    LET n == Len(last.cmd.paramTypes)
        k == NonVariadic(last.cmd.paramTypes)
    IN  <<[kind |-> "Ptr", type |-> sessionType, to |-> last.s],
          [kind |-> "Ptr", type |-> messageEventType, to |-> last.m]>>
        \o [i \in 1..k |-> Conversion(i).val]
        \o (IF k < n
            THEN <<[kind |-> "Slice", type |-> last.cmd.paramTypes[n],
                    v |-> [j \in 1..(Len(last.args) - k) |-> Conversion(k + j).val]]>>
            ELSE << >>)

\* what TestInvoke's stub is to be called with: 3, -2, "hello", true, 4.5, 3.1415926,
\* ["hello", "there"] after the nil client handle and the nil event
TestValues ==
    <<[kind |-> "Ptr", type |-> sessionType, to |-> NilSession],
      [kind |-> "Ptr", type |-> messageEventType, to |-> NilEvent],
      [kind |-> "Uint", neg |-> FALSE, mag |-> <<"3">>],
      [kind |-> "Int", neg |-> TRUE, mag |-> <<"2">>],
      [kind |-> "String", v |-> <<"h", "e", "l", "l", "o">>],
      [kind |-> "Bool", v |-> TRUE],
      [kind |-> "Float32", neg |-> FALSE, digits |-> <<"4", "5">>, k |-> 0],
      [kind |-> "Float64", neg |-> FALSE, digits |-> <<"3", "1", "4", "1", "5", "9", "2", "6">>, k |-> 0],
      [kind |-> "Slice", type |-> SliceOf(Scalar("String")),
       v |-> <<[kind |-> "String", v |-> <<"h", "e", "l", "l", "o">>],
               [kind |-> "String", v |-> <<"t", "h", "e", "r", "e">>]>>]>>

CalledOnce ==
    /\ last.res.calls = <<PositionalValues>>
    /\ (last.cmd.fn = fnStub /\ last.args = TestTokens) => last.res.calls = <<TestValues>>

\* C7 as stated: when the predicate allows, the arity check passes and every token
\* converts, the body is called exactly once with the positional conversions (the
\* trailing slice getting the rest in order; TestInvoke's call giving its values),
\* and Invoke returns nil.
C7_CalledThenNil == Convertible => (CalledOnce /\ last.res.err = NilErr)

\* C7 (amended): under the same conditions the body is called exactly once with the
\* positional conversions, and Invoke returns nil unless the body panics, in which
\* case it returns a non-nil error.
C7_CalledThenNilUnlessPanic ==
    Convertible => (CalledOnce /\ (last.res.err = NilErr <=> Raw.panic = NoPanic))

\* TestInvoke's call has run: the stub was called once with its seven values
C7_Witness ==
    /\ Convertible
    /\ last.cmd.fn = fnStub /\ last.args = TestTokens
    /\ last.res.calls = <<TestValues>>
    /\ last.res.err = NilErr

----------------------------------------------------------------------------
(* Claims about dispatch                                                   *)

\* an event has been dispatched
Handled == last.op = "Handle"

\* the handler calls the claim allows after an invocation of cmd returned err
HandlerCalls(cmd, err, fallback) ==
    IF err = NilErr THEN << >>
    ELSE IF cmd.ErrHandler # NilHandler THEN <<[handler |-> cmd.ErrHandler, err |-> err]>>
    ELSE IF fallback # NilHandler THEN <<[handler |-> fallback, err |-> err]>>
    ELSE << >>

\* C8: a dispatch invokes at most one command; when that Invoke returns an error,
\* the command's own handler if set, otherwise the fallback handler if set, is called
\* once with that error and no other handler is called; with neither set, and when
\* Invoke returns nil, no handler is called.
C8_OneHandlerOnce ==
    Handled =>
        /\ Len(last.res.invoked) <= 1
        /\ \A i \in 1..Len(last.res.invoked) :
               last.res.handled = HandlerCalls(last.res.invoked[i].cmd, last.res.invoked[i].err,
                                               last.errHandler)

\* Invoke failed for a command with a handler of its own while a fallback was given:
\* the own handler, and it alone, got the error
C8_Witness ==
    /\ Handled
    /\ Len(last.res.invoked) = 1
    /\ last.res.invoked[1].err # NilErr
    /\ last.res.invoked[1].cmd.ErrHandler = hOwn
    /\ last.errHandler = hFallback
    /\ last.res.handled = <<[handler |-> hOwn, err |-> last.res.invoked[1].err]>>

\* C9: a dispatch of an event written by the client itself looks no name up, invokes
\* no command and calls no error handler, whatever text, prefix and register.
C9_SelfIgnored ==
    (Handled /\ last.s # NilSession /\ last.msg.Author.ID = last.s.selfID) =>
        /\ last.res.lookedUp = << >>
        /\ last.res.invoked = << >>
        /\ last.res.handled = << >>

\* the client's own "!a 3" under prefix "!" while "a" resolves, and nothing happened
C9_Witness ==
    /\ Handled /\ last.s # NilSession
    /\ last.msg.Author.ID = last.s.selfID
    /\ last.msg.Content = <<"!", "a", " ", "3">>
    /\ last.pfx = <<"!">>
    /\ Get(Cmds, Aliases, <<"a">>) # NilCmd
    /\ last.res = [lookedUp |-> << >>, invoked |-> << >>, handled |-> << >>, panic |-> NoPanic]

\* the name is neither a command's nor an alias leading to a command
Unknown(name) ==
    \/ Get(Cmds, Aliases, name) = NilCmd
    \/ /\ name \notin DOMAIN Cmds
       /\ ~(name \in DOMAIN Aliases /\ Aliases[name] \in DOMAIN Cmds)

\* C10: when the name a prefixed event asks for does not resolve in the register,
\* dispatch ends silently: no command is invoked, no body called, no handler called,
\* no panic.
C10_UnknownIsSilent ==
    (Handled /\ \E i \in 1..Len(last.res.lookedUp) : Unknown(last.res.lookedUp[i])) =>
        /\ last.res.invoked = << >>
        /\ last.res.handled = << >>
        /\ last.res.panic = NoPanic

\* "!c 3" with a fallback handler given, c being an alias that leads to no command
C10_Witness ==
    /\ Handled
    /\ last.errHandler = hFallback
    /\ last.res.lookedUp = <<(<<"c">>)>>
    /\ <<"c">> \in DOMAIN Aliases
    /\ Unknown(<<"c">>)
    /\ last.res.invoked = << >>
    /\ last.res.handled = << >>

----------------------------------------------------------------------------
(* Claims about Validate                                                   *)

\* a call of Validate on a client handle and an event that exist has returned
ValidatedCall == last.op = "Validate" /\ last.s # NilSession /\ last.m # NilEvent

\* the owner lookup answered and names the author
OwnerCheckPasses == last.s.guild.ok /\ last.s.guild.v.OwnerID = last.m.Author.ID

\* the author's role list: the cached member's, else the one the API gives
RoleListKnown == last.s.stateMember.ok \/ last.s.apiMember.ok

RoleList == IF last.s.stateMember.ok THEN last.s.stateMember.v.Roles ELSE last.s.apiMember.v.Roles

RoleKnown(r) == r \in DOMAIN last.s.roles /\ last.s.roles[r].ok

\* some role of the list intersects the mask, and no lookup failed on the way to it
RoleCheckPasses(mask) ==
    /\ RoleListKnown
    /\ \E i \in 1..Len(RoleList) :
           /\ \A j \in 1..i : RoleKnown(RoleList[j])
           /\ BitAnd(last.s.roles[RoleList[i]].v.Permissions, mask) # 0

\* C11: with a nonzero mask and no custom check, Validate allows exactly when the
\* author is the guild's owner or a role of the author's role list intersects the
\* mask; a failed owner, member or role lookup makes that check not pass and is not
\* propagated (Validate returns, it does not panic).
C11_AllowedIffOwnerOrRole ==
    (ValidatedCall /\ last.p.Permissions # 0 /\ last.p.Custom = "nil") =>
        /\ last.res.panic = NoPanic
        /\ last.res.allowed <=> (OwnerCheckPasses \/ RoleCheckPasses(last.p.Permissions))

\* the owner lookup failed and the second role of the list, known to the API only,
\* intersects the mask: allowed
C11_Witness ==
    /\ ValidatedCall /\ last.p = [Permissions |-> 2, Custom |-> "nil"]
    /\ ~last.s.guild.ok
    /\ ~last.s.stateMember.ok
    /\ last.s.apiMember = Member(<<"r1", "r2">>)
    /\ last.res = [allowed |-> TRUE, panic |-> NoPanic]

\* C12: a custom check that is present and returns true makes the result denied
\* whatever the mask says (mask zero, or an owner who passed the mask check), and
\* with mask zero and no custom check the result is always allowed.
C12_CustomPolarity ==
    /\ (ValidatedCall /\ last.p.Custom = "true") => last.res = [allowed |-> FALSE, panic |-> NoPanic]
    /\ (last.op = "Validate" /\ last.p = [Permissions |-> 0, Custom |-> "nil"])
           => last.res = [allowed |-> TRUE, panic |-> NoPanic]

\* the owner passed the mask check and the custom check returned true: denied
C12_Witness ==
    /\ ValidatedCall /\ last.p = [Permissions |-> 2, Custom |-> "true"]
    /\ OwnerCheckPasses
    /\ last.res = [allowed |-> FALSE, panic |-> NoPanic]

----------------------------------------------------------------------------
(* Claims about tryConvert                                                 *)

Converted == last.op = "tryConvert"

\* 2^n in decimal, for the widths of the integer kinds
Pow2(n) ==
    CASE n = 7  -> <<"1","2","8">>
      [] n = 8  -> <<"2","5","6">>
      [] n = 15 -> <<"3","2","7","6","8">>
      [] n = 16 -> <<"6","5","5","3","6">>
      [] n = 31 -> <<"2","1","4","7","4","8","3","6","4","8">>
      [] n = 32 -> <<"4","2","9","4","9","6","7","2","9","6">>
      [] n = 63 -> <<"9","2","2","3","3","7","2","0","3","6","8","5","4","7","7","5","8","0","8">>
      [] n = 64 -> <<"1","8","4","4","6","7","4","4","0","7","3","7","0","9","5","5","1","6","1","6">>

\* a < b for the numbers two digit strings without leading zeros denote
Below(a, b) ==
    \/ Len(a) < Len(b)
    \/ /\ Len(a) = Len(b)
       /\ \E i \in 1..Len(a) : /\ \A j \in 1..(i - 1) : a[j] = b[j]
                               /\ DigitVal(a[i]) < DigitVal(b[i])

\* the bits of an integer kind (int and uint are 64 bits wide)
Width(kind) ==
    CASE kind \in {"Int8", "Uint8"} -> 8
      [] kind \in {"Int16", "Uint16"} -> 16
      [] kind \in {"Int32", "Uint32"} -> 32
      [] OTHER -> 64

\* the token read as an integer: an optional sign, then decimal digits
TokenSigned == last.str # << >> /\ last.str[1] \in {"-", "+"}

TokenDigits == IF TokenSigned THEN Tail(last.str) ELSE last.str

DenotesInteger ==
    /\ TokenDigits # << >>
    /\ \A i \in 1..Len(TokenDigits) : TokenDigits[i] \in DigitChars

\* its magnitude without leading zeros ("0" for zero), and whether it is negative
TokenMagnitude ==
    IF \A i \in 1..Len(TokenDigits) : TokenDigits[i] = "0" THEN <<"0">>
    ELSE SubSeq(TokenDigits, CHOOSE i \in 1..Len(TokenDigits) :
                                 /\ TokenDigits[i] # "0"
                                 /\ \A j \in 1..(i - 1) : TokenDigits[j] = "0",
                Len(TokenDigits))

TokenNegative == last.str[1] = "-" /\ TokenMagnitude # <<"0">>

\* the integer lies in the range of the kind
InRange(kind) ==
    IF kind \in UintKinds THEN ~TokenNegative /\ Below(TokenMagnitude, Pow2(Width(kind)))
    ELSE IF TokenNegative THEN ~Below(Pow2(Width(kind) - 1), TokenMagnitude)
    ELSE Below(TokenMagnitude, Pow2(Width(kind) - 1))

\* the value is that integer, or else an UnmarshalError and no integer value at all
ConvertedOrRefused ==
    IF InRange(last.ttype.kind)
    THEN /\ last.res.err = NilErr
         /\ last.res.val = [kind |-> last.ttype.kind, neg |-> TokenNegative, mag |-> TokenMagnitude]
    ELSE /\ last.res.err.type = "UnmarshalError"
         /\ last.res.val.kind # last.ttype.kind

\* C13 as stated: for every integer type and every token that denotes an integer, the
\* conversion gives that integer without error if it is in the type's range, and an
\* UnmarshalError (no truncated or wrapped value) if it is not.
C13_IntegerOrError ==
    (Converted /\ last.ttype.kind \in IntKinds \cup UintKinds /\ DenotesInteger) => ConvertedOrRefused

\* decimal notation without a plus sign, a leading zero or a negative zero
Canonical ==
    /\ DenotesInteger
    /\ last.str[1] # "+"
    /\ TokenDigits = TokenMagnitude
    /\ last.str # <<"-", "0">>

\* C13 (amended): the same for every token that denotes an integer in canonical
\* decimal notation (an optional minus sign, then 0 or digits not starting with 0,
\* negative zero excluded); other spellings of an integer are refused with an
\* UnmarshalError or converted to that integer, never to another value.
C13_CanonicalIntegerOrError ==
    (Converted /\ last.ttype.kind \in IntKinds \cup UintKinds /\ DenotesInteger) =>
        /\ Canonical => ConvertedOrRefused
        /\ \/ last.res.err.type = "UnmarshalError" /\ last.res.val.kind # last.ttype.kind
           \/ /\ last.res.err = NilErr /\ InRange(last.ttype.kind)
              /\ last.res.val = [kind |-> last.ttype.kind, neg |-> TokenNegative, mag |-> TokenMagnitude]

\* -128 fits an int8, 128 does not
C13_Witness ==
    /\ Converted /\ last.ttype = Scalar("Int8")
    /\ last.str = <<"-", "1", "2", "8">>
    /\ last.res.err = NilErr
    /\ last.res.val = [kind |-> "Int8", neg |-> TRUE, mag |-> <<"1", "2", "8">>]

\* 128 into an int8: an UnmarshalError, and no int8 value
C13_Refused ==
    /\ Converted /\ last.ttype = Scalar("Int8")
    /\ last.str = <<"1", "2", "8">>
    /\ last.res.err.type = "UnmarshalError"

----------------------------------------------------------------------------
(* Claims about entity references                                          *)

\* the entity kind of a parameter type, and its name
EntityKind(type) == IF type = channelType THEN "channel" ELSE "user"

EntityKindName(type) ==
    IF type = channelType THEN <<"c","h","a","n","n","e","l">> ELSE <<"u","s","e","r">>

\* the directory of s knows no entity of the type under the id
NotInDirectory(s, type, id) ==
    IF type = channelType THEN id \notin s.channels ELSE id \notin s.users

\* neither the id the mention syntax gives nor the raw token resolves
FailsBoth(s, type, token) ==
    /\ NotInDirectory(s, type, Sscanf(token, IF type = channelType THEN ChannelMention ELSE UserMention))
    /\ NotInDirectory(s, type, token)

\* the i-th token handed to tryConvert was an entity reference that fails both ways
EntityUnresolved(i) ==
    /\ Invoked /\ last.s # NilSession
    /\ i \in 1..Len(last.res.converted)
    /\ last.res.converted[i].type \in {channelType, userType}
    /\ FailsBoth(last.s, last.res.converted[i].type, last.res.converted[i].token)

\* the error of that conversion
EntityError(i) == tryConvert(last.s, last.res.converted[i].type, last.res.converted[i].token).err

\* the text of the error contains the text
Names(err, text) == IndexFrom(err.Why.msg, text, 1) # 0

----------------------------------------------------------------------------
(* Claims about Command                                                    *)

Constructed == last.op = "Command"

\* string, boolean, integer, float, or a user or channel reference
SupportedScalar(t) ==
    \/ t.kind \in {"String", "Bool"} \cup IntKinds \cup UintKinds \cup FloatKinds
    \/ t \in {userType, channelType}

\* the signature the claim asks for
SupportedSignature(fn) ==
    /\ fn.kind = "Func"
    /\ Len(fn.in) >= 2
    /\ fn.in[1] = sessionType
    /\ fn.in[2] = messageEventType
    /\ \A c \in 3..Len(fn.in) :
           \/ SupportedScalar(fn.in[c])
           \/ c = Len(fn.in) /\ fn.in[c].kind = "Slice" /\ SupportedScalar(fn.in[c].elem)

\* C15: Command returns a descriptor only for a function whose first two parameters
\* are the client handle and the message event and whose further parameters are
\* each a supported scalar or entity reference or, as the last one only, a slice of
\* such; on any violation it returns an error and no descriptor.
C15_OnlySupported ==
    Constructed =>
        /\ last.res.cmd # NilCmd => (SupportedSignature(last.fn) /\ last.res.err = NilErr)
        /\ ~SupportedSignature(last.fn) => (last.res.cmd = NilCmd /\ last.res.err # NilErr)

\* a descriptor for func(s, m, z complex128)
C15_Accepted ==
    /\ Constructed
    /\ last.fn.in = <<sessionType, messageEventType, Scalar("Complex128")>>
    /\ last.res.cmd # NilCmd
    /\ last.res.err = NilErr

----------------------------------------------------------------------------
(* Claims about the register's invariants                                  *)

\* C16: in every state Add and Alias can reach, no name is both a key of Cmds and a
\* key of Aliases whose destination is a different command.
C16_NoCommandAndAlias ==
    \A name \in DOMAIN Cmds \cap DOMAIN Aliases :
        Aliases[name] \in DOMAIN Cmds => Cmds[Aliases[name]] = Cmds[name]

\* C18: in every state Add and Alias can reach, every alias resolves: its
\* destination is a key of Cmds, so Get of the alias is a command and is Get of the
\* destination.
C18_AliasesResolve ==
    \A a \in DOMAIN Aliases :
        /\ Aliases[a] \in DOMAIN Cmds
        /\ Get(Cmds, Aliases, a) # NilCmd
        /\ Get(Cmds, Aliases, a) = Get(Cmds, Aliases, Aliases[a])

\* C17: a command without parameters beyond the client handle and the event, invoked
\* with no tokens under an allowing predicate, has its body called once and Invoke
\* returns nil.
C17_NoParametersCalled ==
    (Invoked /\ PredicateAllows /\ last.cmd.paramTypes = << >> /\ last.args = << >>) =>
        /\ Len(last.res.calls) = 1
        /\ last.res.err = NilErr

\* such a call returned the error made from the recovered panic, the body not called
C17_Panicked ==
    /\ Invoked /\ PredicateAllows /\ last.cmd.fn = fnPing /\ last.args = << >>
    /\ last.res.calls = << >>
    /\ last.res.err = [type |-> "errorString", msg |-> <<"Cmd.Invoke:", "index out of range [-1]">>]

----------------------------------------------------------------------------
(* Claims about the order of conversions                                   *)

\* the conversions are reached and the one at position i fails, none before it
FirstFailure(i) ==
    /\ Invoked /\ PredicateAllows /\ ArityPasses
    /\ i \in 1..Len(last.args)
    /\ Conversion(i).err # NilErr
    /\ \A j \in 1..(i - 1) : Conversion(j).err = NilErr

\* C19: when the conversion of the token at some position (of a positional parameter
\* or of an element of the trailing slice) is the first to fail, Invoke returns that
\* UnmarshalError, the tokens handed to tryConvert are those up to that position and
\* no later one, and the body is not called.
C19_FirstFailureAborts ==
    Invoked => \A i \in 1..Len(last.args) :
        FirstFailure(i) =>
            /\ last.res.err = Conversion(i).err
            /\ last.res.err.type = "UnmarshalError"
            /\ last.res.converted =
                   [j \in 1..i |-> [type |-> ExpectedType(last.cmd.paramTypes, j), token |-> last.args[j]]]
            /\ last.res.calls = << >>

\* 300 does not fit the first element of a []uint8; the 3 after it is not converted
C19_Witness ==
    /\ FirstFailure(1)
    /\ last.cmd.fn = fnSum
    /\ last.args = <<T300, T3>>
    /\ Len(last.res.converted) = 1
    /\ last.res.err.type = "UnmarshalError"
    /\ last.res.calls = << >>

----------------------------------------------------------------------------
(* Claims about the tokens of an event                                     *)

\* the positions of the spaces of the event's text, and the k-th of them (0 before
\* the first, one past the end after the last)
Spaces == {i \in 1..Len(last.msg.Content) : last.msg.Content[i] = " "}

SpaceAt(k) ==
    IF k = 0 THEN 0
    ELSE IF k > Cardinality(Spaces) THEN Len(last.msg.Content) + 1
    ELSE CHOOSE p \in Spaces : Cardinality({q \in Spaces : q <= p}) = k

\* the k-th space-delimited token of the text
Token(k) == SubSeq(last.msg.Content, SpaceAt(k - 1) + 1, SpaceAt(k) - 1)

\* the first token without the prefix it begins with, if it begins with it
CandidateName ==
    IF Len(last.pfx) <= Len(Token(1)) /\ SubSeq(Token(1), 1, Len(last.pfx)) = last.pfx
    THEN SubSeq(Token(1), Len(last.pfx) + 1, Len(Token(1)))
    ELSE Token(1)

\* an event of another author whose text starts with the prefix has been dispatched
PrefixedEvent ==
    /\ Handled /\ last.s # NilSession
    /\ last.msg.Author.ID # last.s.selfID
    /\ Len(last.pfx) <= Len(last.msg.Content)
    /\ SubSeq(last.msg.Content, 1, Len(last.pfx)) = last.pfx

\* C20: for an event text that starts with the prefix (the empty prefix and one with
\* a space included), dispatch looks up the first space-delimited token without its
\* leading prefix, and the command found is invoked with the remaining
\* space-delimited tokens in their order.
C20_NameAndTokens ==
    PrefixedEvent =>
        /\ last.res.lookedUp = <<CandidateName>>
        /\ \A i \in 1..Len(last.res.invoked) :
               last.res.invoked[i].args = [k \in 1..Cardinality(Spaces) |-> Token(k + 1)]
        /\ Get(Cmds, Aliases, CandidateName) # NilCmd => Len(last.res.invoked) = 1

\* "!a  3" under the prefix "!": a is looked up and invoked with the tokens "" and "3"
C20_Witness ==
    /\ PrefixedEvent
    /\ last.msg.Content = <<"!", "a", " ", " ", "3">>
    /\ last.pfx = <<"!">>
    /\ last.res.lookedUp = <<(<<"a">>)>>
    /\ Len(last.res.invoked) = 1
    /\ last.res.invoked[1].args = <<EmptyStr, <<"3">> >>

\* "a 3" under the prefix "a ": a is looked up and invoked with the token "3"
C20_SpacedPrefix ==
    /\ PrefixedEvent
    /\ last.msg.Content = <<"a", " ", "3">>
    /\ last.pfx = <<"a", " ">>
    /\ last.res.lookedUp = <<(<<"a">>)>>
    /\ Len(last.res.invoked) = 1
    /\ last.res.invoked[1].args = <<(<<"3">>)>>

----------------------------------------------------------------------------
(* Claims about entity references                                          *)

EntityCall == Converted /\ last.ttype \in {channelType, userType} /\ last.s # NilSession

MentionOpener(type) == IF type = channelType THEN ChannelMention ELSE UserMention

\* what stands between the opener and the last character of the token
MentionDigits(type, str) == SubSeq(str, Len(MentionOpener(type)) + 1, Len(str) - 1)

\* the token is a mention of the kind: the opener, one or more digits, ">"
MatchesMention(type, str) ==
    /\ HasPrefix(str, MentionOpener(type))
    /\ Len(str) >= Len(MentionOpener(type)) + 2
    /\ str[Len(str)] = ">"
    /\ \A i \in 1..Len(MentionDigits(type, str)) : MentionDigits(type, str)[i] \in DigitChars

\* the by-ID lookup of the identifier the mention carries, nil when the token is no mention
MentionLookup ==
    IF MatchesMention(last.ttype, last.str)
    THEN SessionLookup(last.s, EntityKind(last.ttype), FormatUint(MentionDigits(last.ttype, last.str)))
    ELSE NilEntity

\* the by-ID lookup of the token as it was given
RawLookup == SessionLookup(last.s, EntityKind(last.ttype), last.str)

ResolvedTo(entity) == last.res.err = NilErr /\ last.res.val = entity

\* C21: a token that is a mention whose identifier the by-ID lookup finds converts to
\* that entity; otherwise the conversion gives exactly what the by-ID lookup of the raw
\* token gives (that entity, or an error when it finds nothing), so a token that is not
\* a mention resolves to no entity but the one whose identifier is the token.
C21_TwoPhase ==
    EntityCall =>
        IF ~MentionLookup.nil THEN ResolvedTo(MentionLookup)
        ELSE IF ~RawLookup.nil THEN ResolvedTo(RawLookup)
        ELSE last.res.err # NilErr

\* a mention cut short resolves to the entity its digits name
C21_PartialMention ==
    /\ EntityCall
    /\ ~MatchesMention(last.ttype, last.str)
    /\ last.res.err = NilErr
    /\ last.res.val.ID # last.str

\* the two phases as the claim has them, on a mention and on a bare identifier
C21_Mention ==
    /\ EntityCall
    /\ MatchesMention(last.ttype, last.str)
    /\ ResolvedTo(MentionLookup)

----------------------------------------------------------------------------
(* Claims about lookups over time                                          *)

Resolves(name) == Get(Cmds, Aliases, name) # NilCmd

\* C22: over any sequence of Add and Alias, a name that Get resolves to a descriptor
\* resolves to the same descriptor after every further Add or Alias, whether that
\* operation succeeds or fails; step by step, hence at every later time.
C22_LookupStable ==
    [][\A name \in RegNames :
          Resolves(name) => Get(Cmds', Aliases', name) = Get(Cmds, Aliases, name)]_vars

\* an alias resolves to one descriptor and an Add of another descriptor under the
\* alias's name has just been refused
C22_Witness ==
    /\ last.op = "Add" /\ last.err # NilErr
    /\ MapGet(Aliases, last.name, EmptyStr) # EmptyStr
    /\ Resolves(last.name)
    /\ Get(Cmds, Aliases, last.name) # last.cmd

====
